---- MODULE Spec2Model ----
(***************************************************************************)
(* k-colorability by reduction to SAT.                                     *)
(*                                                                         *)
(* Two programs of the repository are modelled:                            *)
(*   color2sat       reads a DIMACS graph and k, prints a DIMACS CNF       *)
(*                   (EncSpec: read_graph line by line, then main).        *)
(*   k-colorability  the driver: for k = k_start .. max_k it runs          *)
(*                   color2sat | minisat and inspects the result file      *)
(*                   (Spec: main and run_color_minisat, step by step).     *)
(* EncWideSpec is color2sat on vertex counts up to INT_MAX; PipeSpec is    *)
(* one round of the driver with pipes of bounded capacity.                 *)
(***************************************************************************)
EXTENDS Integers, Sequences, FiniteSets, TLC

VARIABLES
    \* ---- color2sat (encoder program) ----
    e_pc,        \* "read" | "encode" | "done" | "fatal"
    e_k,         \* argv[2], the number of colors
    rs,          \* read_graph's locals and its Graph: phase, n, m, edges
    e_line,      \* what the last fgets of read_graph returned
    out,         \* lines printed to stdout
    \* ---- k-colorability (driver program) ----
    pc,          \* position of the driver
    graph_buf,   \* the loaded graph text (a sequence of lines)
    k_override,  \* -k option, 0 when absent
    max_k,       \* vertex count found by parse_header
    k,           \* loop variable of the search
    found,       \* 0 / 1
    tmpfile,     \* the result artifact: [created, exists, line, by]
    enc,         \* encoder child of the current round
    sol,         \* solver child of the current round
    p2c,         \* pipe driver -> encoder
    c2s,         \* pipe encoder -> solver
    rounds,      \* history: the value returned by run_color_minisat per k
    reported,    \* success outputs emitted ("k = ..." lines)
    exit_code,   \* "none" | "success" | "failure" | "killed"
    env_failed,  \* history: some system call or exec has failed
    diag,        \* the last diagnostic printed to stderr, "" when none
    \* ---- one round at the granularity of pipe transfers (PipeSpec) ----
    cap,         \* capacity of a pipe, in lines
    written,     \* lines of graph_buf the driver's write has transferred
    sent,        \* lines of out the encoder has transferred to its stdout
    s_in         \* the lines the solver has read from its stdin

encvars == <<e_pc, e_k, rs, e_line, out>>
drvvars == <<pc, graph_buf, k_override, max_k, k, found, tmpfile, enc, sol,
             p2c, c2s, rounds, reported, exit_code, env_failed, diag>>
pipevars == <<cap, written, sent, s_in>>
vars == <<e_pc, e_k, rs, e_line, out, pc, graph_buf, k_override, max_k, k, found,
          tmpfile, enc, sol, p2c, c2s, rounds, reported, exit_code, env_failed,
          diag, cap, written, sent, s_in>>

----------------------------------------------------------------------------
(* Bounds of the model *)

\* largest vertex count N of a problem line
MaxN == 3
\* largest declared edge count M of a problem line
MaxM == 3
\* largest number of colors handed to color2sat
MaxK == 3
\* largest -k override handed to the driver
MaxKOverride == 4
\* largest capacity of a pipe, in lines
MaxCap == 2
\* width of an int in the model; a long and a long long have twice the
\* width (the program's are 32 and 64 bits, beyond the model checker's
\* integers, so the widths are scaled down together)
IntBits == 5

----------------------------------------------------------------------------
(* Input lines.  A line is what fgets delivers and what sscanf makes of    *)
(* it: its first character, whether the pattern matched both integers, and *)
(* the two integers.                                                       *)

Line(t, ok, a, b) == [t |-> t, ok |-> ok, a |-> a, b |-> b]
\* "p edge N M"
PLine(n, m) == Line("p", TRUE, n, m)
\* a line starting with 'p' that sscanf("p edge %d %d") does not match
BadPLine == Line("p", FALSE, 0, 0)
\* "e U V"
ELine(u, v) == Line("e", TRUE, u, v)
\* a line starting with 'e' that sscanf("e %d %d") does not match
BadELine == Line("e", FALSE, 0, 0)
\* any other line (a comment, junk)
OtherLine == Line("c", FALSE, 0, 0)
\* no line read yet
NoLine == Line("", FALSE, 0, 0)
\* fgets returned NULL: the input has ended
EofLine == Line("eof", FALSE, 0, 0)

SimpleEdges == {e \in (1..MaxN) \X (1..MaxN) : e[1] < e[2]}
\* edge lines offered to the reader: the simple edges, a self-loop, and an
\* endpoint 0 (an endpoint above n arises whenever n < MaxN)
EdgeLines == {ELine(e[1], e[2]) : e \in SimpleEdges} \cup {ELine(1, 1), ELine(0, 1)}
ProblemLines == {PLine(n, m) : n \in 0..MaxN, m \in 0..MaxM} \cup {BadPLine}
InputLines == ProblemLines \cup EdgeLines \cup {BadELine, OtherLine}

----------------------------------------------------------------------------
(* read_graph *)

\* read_graph before the first line: m_decl is its local m (the M of the
\* problem line), m is g->m, Len(edges) is count
ReadStart == [ph |-> "problem", n |-> 0, m_decl |-> 0, m |-> 0, edges |-> <<>>]
ReadFatal(r) == [r EXCEPT !.ph = "fatal"]

\* one iteration of the two fgets loops of read_graph
read_line(r, l) ==
    IF r.ph = "problem" THEN
        IF l.t = "p" THEN
            IF ~l.ok THEN ReadFatal(r)
            ELSE IF l.a <= 0 \/ l.b < 0
                 THEN ReadFatal([r EXCEPT !.n = l.a, !.m_decl = l.b])
                 ELSE [r EXCEPT !.ph = "edges", !.n = l.a, !.m_decl = l.b, !.m = l.b]
        ELSE r
    ELSE IF r.ph = "edges" THEN
        IF l.t = "e" /\ Len(r.edges) < r.m_decl THEN
            IF l.ok THEN [r EXCEPT !.edges = Append(@, <<l.a, l.b>>)]
            ELSE r
        ELSE ReadFatal(r)
    ELSE r

\* mutant: a count other than the declared M is fatal
read_eof_Strict(r) ==
    IF r.ph = "problem" THEN ReadFatal(r)
    ELSE IF r.ph = "edges"
         THEN IF Len(r.edges) # r.m_decl THEN ReadFatal(r)
              ELSE [r EXCEPT !.ph = "graph"]
    ELSE r
\* fgets returns NULL: end of input
read_eof(r) ==
    IF r.ph = "problem" THEN ReadFatal(r)
    ELSE IF r.ph = "edges" THEN [r EXCEPT !.ph = "graph", !.m = Len(r.edges)]
    ELSE r

RECURSIVE read_lines(_, _, _)
read_lines(r, text, i) ==
    IF i > Len(text) THEN r ELSE read_lines(read_line(r, text[i]), text, i + 1)

\* read_graph on a whole text: the Graph (ph = "graph") or a fatal exit
read_graph(text) == read_eof(read_lines(ReadStart, text, 1))

----------------------------------------------------------------------------
(* color2sat main: the encoding *)

RECURSIVE Flatten(_)
Flatten(ss) == IF ss = <<>> THEN <<>> ELSE Head(ss) \o Flatten(Tail(ss))

\* mutant: the vertex is not shifted to base 0
var_VertexBase1(v, c, kk) == v * kk + c
\* the variable of vertex v and color c
var(v, c, kk) == (v - 1) * kk + c

\* a printed literal: "%ld" (neg = FALSE) or "-%ld" (neg = TRUE) of num
Lit(neg, num) == [neg |-> neg, num |-> num]
\* a printed line; term is the number printed after the literals of a
\* clause line (-1: the line has none)
ClauseLine(lits) == [t |-> "cl", vars |-> 0, clauses |-> 0, lits |-> lits, term |-> 0]
CommentLine == [t |-> "c", vars |-> 0, clauses |-> 0, lits |-> <<>>, term |-> -1]
HeaderLine(nv, nc) == [t |-> "p", vars |-> nv, clauses |-> nc, lits |-> <<>>, term |-> -1]

\* the value of x in a two's complement integer of the given width
Wrap(x, bits) == ((x + 2^(bits - 1)) % 2^bits) - 2^(bits - 1)
\* conversion to int
ToInt(x) == Wrap(x, IntBits)
\* conversion to long long
ToLongLong(x) == Wrap(x, 2 * IntBits)
INT_MAX == 2^(IntBits - 1) - 1

\* "p cnf num_vars num_clauses": int num_vars = n * k, long long num_clauses
Header(gr, kk) ==
    HeaderLine(ToInt(gr.n * kk),
               ToLongLong(gr.n + ((gr.n * kk * (kk - 1)) \div 2) + gr.m * kk))

\* 1. every vertex has at least one color
Coverage(gr, kk) ==
    [v \in 1..gr.n |-> ClauseLine([i \in 1..kk |-> Lit(FALSE, var(v, i, kk))])]

\* mutant: the inner loop starts at j = i instead of j = i + 1
ExclusivityOf_FromI(v, kk) ==
    Flatten([i \in 1..kk |->
               [d \in 1..(kk - i + 1) |->
                  ClauseLine(<<Lit(TRUE, var(v, i, kk)), Lit(TRUE, var(v, i + d - 1, kk))>>)]])
ExclusivityOf(v, kk) ==
    Flatten([i \in 1..kk |->
               [d \in 1..(kk - i) |->
                  ClauseLine(<<Lit(TRUE, var(v, i, kk)), Lit(TRUE, var(v, i + d, kk))>>)]])
\* 2. every vertex has at most one color
Exclusivity(gr, kk) == Flatten([v \in 1..gr.n |-> ExclusivityOf(v, kk)])

\* mutant: the color loop stops one short (i < k)
AdjacencyOf_OneShort(e, kk) ==
    [i \in 1..(kk - 1) |->
       ClauseLine(<<Lit(TRUE, var(e[1], i, kk)), Lit(TRUE, var(e[2], i, kk))>>)]
AdjacencyOf(e, kk) ==
    [i \in 1..kk |->
       ClauseLine(<<Lit(TRUE, var(e[1], i, kk)), Lit(TRUE, var(e[2], i, kk))>>)]
\* 3. adjacent vertices differ in color
Adjacency(gr, kk) == Flatten([e \in 1..gr.m |-> AdjacencyOf(gr.edges[e], kk)])

\* mutant: the adjacency clauses are printed before the exclusivity clauses
color2sat_AdjacencyFirst(gr, kk) ==
    <<CommentLine, Header(gr, kk)>> \o Coverage(gr, kk) \o Adjacency(gr, kk)
        \o Exclusivity(gr, kk)
\* everything main prints for a graph
color2sat(gr, kk) ==
    <<CommentLine, Header(gr, kk)>> \o Coverage(gr, kk) \o Exclusivity(gr, kk)
        \o Adjacency(gr, kk)

----------------------------------------------------------------------------
(* Reading a CNF text, satisfiability and colorability *)

CnfHeader(o) == CHOOSE l \in {o[i] : i \in DOMAIN o} : l.t = "p"
HasHeader(o) == \E i \in DOMAIN o : o[i].t = "p"
CnfClauses(o) == SelectSeq(o, LAMBDA l : l.t = "cl")
AllLits(o) == UNION {{c.lits[j] : j \in DOMAIN c.lits} : c \in {o[i] : i \in DOMAIN o}}

\* every literal is a non-zero integer within the declared variables
LitInRange(l, nv) == l.num >= 1 /\ l.num <= nv
WellFormedCnf(o) ==
    /\ HasHeader(o)
    /\ \A l \in AllLits(o) : LitInRange(l, CnfHeader(o).vars)
    /\ Len(CnfClauses(o)) = CnfHeader(o).clauses

\* a clause all of whose literals are false under the partial assignment asg
Falsified(c, asg) ==
    \A j \in DOMAIN c.lits :
        /\ c.lits[j].num <= Len(asg)
        /\ asg[c.lits[j].num] = c.lits[j].neg

RECURSIVE SatFrom(_, _, _)
SatFrom(cls, nv, asg) ==
    IF \E i \in DOMAIN cls : Falsified(cls[i], asg) THEN FALSE
    ELSE IF Len(asg) >= nv THEN TRUE
    ELSE SatFrom(cls, nv, Append(asg, TRUE)) \/ SatFrom(cls, nv, Append(asg, FALSE))

\* some assignment of the variables 1..nv makes every clause true
Satisfiable(cls, nv) == SatFrom(cls, nv, <<>>)

EndpointsInRange(gr) ==
    \A i \in 1..Len(gr.edges) : gr.edges[i][1] \in 1..gr.n /\ gr.edges[i][2] \in 1..gr.n

\* the graph has a proper coloring with colors 1..kk
Colorable(gr, kk) ==
    \E col \in [1..gr.n -> 1..kk] :
        \A i \in 1..Len(gr.edges) : col[gr.edges[i][1]] # col[gr.edges[i][2]]

----------------------------------------------------------------------------
(* EncSpec: the program color2sat *)

\* no result file yet
NoFile == [created |-> FALSE, exists |-> FALSE, line |-> "", by |-> 0]
\* a pipe into which nothing has been written, write end open
NoPipe == [data |-> <<>>, closed |-> FALSE]

DrvIdle ==
    /\ pc = "idle" /\ graph_buf = <<>> /\ k_override = 0 /\ max_k = 0 /\ k = 0
    /\ found = 0 /\ tmpfile = NoFile
    /\ enc = "none" /\ sol = "none" /\ p2c = NoPipe /\ c2s = <<>>
    /\ rounds = <<>> /\ reported = <<>> /\ exit_code = "none"
    /\ env_failed = FALSE
    /\ diag = ""
    /\ cap = 0 /\ written = 0 /\ sent = 0 /\ s_in = <<>>

EncInit ==
    /\ e_pc = "read"
    /\ e_k \in 1..MaxK
    /\ rs = ReadStart
    /\ e_line = NoLine
    /\ out = <<>>
    /\ DrvIdle

\* fgets delivers one more line of the input
ReadLine ==
    /\ e_pc = "read"
    /\ \E l \in InputLines :
          /\ e_line' = l
          /\ rs' = read_line(rs, l)
    /\ e_pc' = IF rs'.ph = "fatal" THEN "fatal" ELSE "read"
    /\ UNCHANGED <<e_k, out>>
    /\ UNCHANGED drvvars
    /\ UNCHANGED pipevars

\* fgets reports the end of the input
ReadEof ==
    /\ e_pc = "read"
    /\ e_line' = EofLine
    /\ rs' = read_eof(rs)
    /\ e_pc' = IF rs'.ph = "fatal" THEN "fatal" ELSE "encode"
    /\ UNCHANGED <<e_k, out>>
    /\ UNCHANGED drvvars
    /\ UNCHANGED pipevars

\* main after read_graph: header and the three clause families
Encode ==
    /\ e_pc = "encode"
    /\ out' = color2sat(rs, e_k)
    /\ e_pc' = "done"
    /\ UNCHANGED <<e_k, rs, e_line>>
    /\ UNCHANGED drvvars
    /\ UNCHANGED pipevars

EncNext == ReadLine \/ ReadEof \/ Encode

EncSpec == EncInit /\ [][EncNext]_vars

\* problem lines with any vertex count an int holds, and one edge line
WideLines == {PLine(n, m) : n \in 1..INT_MAX, m \in 0..1} \cup {ELine(1, 2)}

\* fgets delivers one more line of an input with many vertices
ReadWideLine ==
    /\ e_pc = "read"
    /\ \E l \in WideLines :
          /\ e_line' = l
          /\ rs' = read_line(rs, l)
    /\ e_pc' = IF rs'.ph = "fatal" THEN "fatal" ELSE "read"
    /\ UNCHANGED <<e_k, out>>
    /\ UNCHANGED drvvars
    /\ UNCHANGED pipevars

EncWideNext == ReadWideLine \/ ReadEof \/ Encode

\* color2sat on inputs whose n * k does not fit an int
EncWideSpec == EncInit /\ [][EncWideNext]_vars

----------------------------------------------------------------------------
(* Spec: the program k-colorability (the driver) *)

EdgeLess(a, b) == a[1] < b[1] \/ (a[1] = b[1] /\ a[2] < b[2])
RECURSIVE SortedSeq(_)
SortedSeq(S) ==
    IF S = {} THEN <<>>
    ELSE LET x == CHOOSE y \in S : \A z \in S : z = y \/ EdgeLess(y, z)
         IN  <<x>> \o SortedSeq(S \ {x})

\* the file "p edge n m" followed by the m edge lines of es
GraphText(n, es) ==
    <<PLine(n, Len(es))>> \o [i \in 1..Len(es) |-> ELine(es[i][1], es[i][2])]
GraphTexts ==
    {GraphText(n, SortedSeq(S)) :
        n \in 1..MaxN, S \in {T \in SUBSET SimpleEdges : Cardinality(T) <= MaxM}}
\* files color2sat rejects, or accepts with a warning or with bad endpoints
MalformedTexts ==
    { <<>>, <<BadPLine>>, <<PLine(0, 0)>>, <<BadPLine, PLine(2, 0)>>,
      <<PLine(2, 1), OtherLine>>, <<PLine(2, 2), ELine(1, 2)>>,
      <<PLine(2, 1), ELine(1, 1)>>, <<PLine(2, 1), ELine(0, 1)>>,
      <<OtherLine, PLine(2, 1), ELine(1, 2)>> }
\* the graph files handed to the driver
DriverTexts == GraphTexts \cup MalformedTexts

\* parse_header: the N of the first line that matches "p edge N M"
parse_header(buf) ==
    LET S == {i \in 1..Len(buf) : buf[i].t = "p" /\ buf[i].ok}
    IN  IF S = {} THEN [ret |-> -1, n |-> 0]
        ELSE [ret |-> 0, n |-> buf[CHOOSE i \in S : \A j \in S : i <= j].a]

\* long k_start = (k_override > 0 ? k_override : 2)
k_start == IF k_override > 0 THEN k_override ELSE 2

\* mutant: the loop condition without !found
LoopContinues_IgnoresFound == k <= max_k
\* the loop condition  !found && k <= max_k
LoopContinues == found = 0 /\ k <= max_k

\* the first line minisat writes for the CNF it read; for an input that is
\* no well-formed CNF (an empty one, a literal 0 or out of range) nothing is
\* known about the answer, nor whether there is one
Verdicts(cnf) ==
    IF WellFormedCnf(cnf)
    THEN {IF Satisfiable(CnfClauses(cnf), CnfHeader(cnf).vars) THEN "SAT" ELSE "UNSAT"}
    ELSE {"SAT", "UNSAT", ""}

\* ERROR_EXIT: the diagnostic, then exit(EXIT_FAILURE) on the spot
ErrorExit(msg) ==
    /\ diag' = msg
    /\ pc' = "exited"
    /\ exit_code' = "failure"

\* run_color_minisat returns r
Return(r) ==
    /\ rounds' = Append(rounds, [k |-> k, ret |-> r])
    /\ pc' = "returned"

Init ==
    /\ e_pc = "idle" /\ e_k = 0 /\ rs = ReadStart /\ e_line = NoLine /\ out = <<>>
    /\ pc = "parse_header"
    /\ graph_buf \in DriverTexts
    /\ k_override \in 0..MaxKOverride
    /\ max_k = 0 /\ k = 0 /\ found = 0
    /\ tmpfile = NoFile
    /\ enc = "none" /\ sol = "none"
    /\ p2c = NoPipe /\ c2s = <<>>
    /\ rounds = <<>> /\ reported = <<>>
    /\ exit_code = "none"
    /\ env_failed = FALSE
    /\ diag = ""
    /\ cap = 0 /\ written = 0 /\ sent = 0 /\ s_in = <<>>

\* main: parse_header found the vertex count
ParseHeader ==
    /\ pc = "parse_header"
    /\ parse_header(graph_buf).ret = 0
    /\ max_k' = parse_header(graph_buf).n
    /\ pc' = "mkstemp"
    /\ UNCHANGED <<graph_buf, k_override, k, found, tmpfile, enc, sol, p2c, c2s,
                   rounds, reported, exit_code, env_failed, diag>>
    /\ UNCHANGED encvars
    /\ UNCHANGED pipevars

\* main: no problem line, fatal
ParseHeaderFail ==
    /\ pc = "parse_header"
    /\ parse_header(graph_buf).ret = -1
    /\ ErrorExit("Could not parse graph header for vertex count.")
    /\ UNCHANGED <<graph_buf, k_override, max_k, k, found, tmpfile, enc, sol, p2c,
                   c2s, rounds, reported, env_failed>>
    /\ UNCHANGED encvars
    /\ UNCHANGED pipevars

\* main: mkstemp creates the result file; the loop variable is initialised
Mkstemp ==
    /\ pc = "mkstemp"
    /\ tmpfile' = [created |-> TRUE, exists |-> TRUE, line |-> "", by |-> 0]
    /\ found' = 0
    /\ k' = k_start
    /\ pc' = "loop"
    /\ UNCHANGED <<graph_buf, k_override, max_k, enc, sol, p2c, c2s, rounds,
                   reported, exit_code, env_failed, diag>>
    /\ UNCHANGED encvars
    /\ UNCHANGED pipevars

MkstempFail ==
    /\ pc = "mkstemp"
    /\ env_failed' = TRUE
    /\ ErrorExit("mkstemp failed.")
    /\ UNCHANGED <<graph_buf, k_override, max_k, k, found, tmpfile, enc, sol, p2c,
                   c2s, rounds, reported>>
    /\ UNCHANGED encvars
    /\ UNCHANGED pipevars

\* main: the test of the for loop
LoopTest ==
    /\ pc = "loop"
    /\ pc' = IF LoopContinues THEN "pipe" ELSE "cleanup"
    /\ UNCHANGED <<graph_buf, k_override, max_k, k, found, tmpfile, enc, sol, p2c,
                   c2s, rounds, reported, exit_code, env_failed, diag>>
    /\ UNCHANGED encvars
    /\ UNCHANGED pipevars

\* run_color_minisat: both pipes are created
Pipe ==
    /\ pc = "pipe"
    /\ p2c' = NoPipe
    /\ c2s' = <<>>
    /\ enc' = "none"
    /\ sol' = "none"
    /\ pc' = "fork1"
    /\ UNCHANGED <<graph_buf, k_override, max_k, k, found, tmpfile, rounds, reported,
                   exit_code, env_failed, diag>>
    /\ UNCHANGED encvars
    /\ UNCHANGED pipevars

PipeFail ==
    /\ pc = "pipe"
    /\ env_failed' = TRUE
    /\ diag' = "pipe failed"
    /\ Return(-1)
    /\ UNCHANGED <<graph_buf, k_override, max_k, k, found, tmpfile, enc, sol, p2c,
                   c2s, reported, exit_code>>
    /\ UNCHANGED encvars
    /\ UNCHANGED pipevars

\* run_color_minisat: fork of the color2sat child
Fork1 ==
    /\ pc = "fork1"
    /\ enc' = "forked"
    /\ pc' = "write"
    /\ UNCHANGED <<graph_buf, k_override, max_k, k, found, tmpfile, sol, p2c, c2s,
                   rounds, reported, exit_code, env_failed, diag>>
    /\ UNCHANGED encvars
    /\ UNCHANGED pipevars

Fork1Fail ==
    /\ pc = "fork1"
    /\ env_failed' = TRUE
    /\ diag' = "fork failed."
    /\ Return(-1)
    /\ UNCHANGED <<graph_buf, k_override, max_k, k, found, tmpfile, enc, sol, p2c,
                   c2s, reported, exit_code>>
    /\ UNCHANGED encvars
    /\ UNCHANGED pipevars

\* color2sat child: execvp succeeds
EncExec ==
    /\ enc = "forked"
    /\ enc' = "running"
    /\ UNCHANGED <<pc, graph_buf, k_override, max_k, k, found, tmpfile, sol, p2c,
                   c2s, rounds, reported, exit_code, env_failed, diag>>
    /\ UNCHANGED encvars
    /\ UNCHANGED pipevars

\* color2sat child: execvp fails, the child exits
EncExecFail ==
    /\ enc = "forked"
    /\ enc' = "exited"
    /\ env_failed' = TRUE
    /\ diag' = "exec color2sat failed."
    /\ UNCHANGED <<pc, graph_buf, k_override, max_k, k, found, tmpfile, sol, p2c,
                   c2s, rounds, reported, exit_code>>
    /\ UNCHANGED encvars
    /\ UNCHANGED pipevars

\* color2sat child: reads its input to the end, prints the CNF (or exits on
\* a fatal format error with nothing printed), and exits
EncRun ==
    /\ enc = "running"
    /\ p2c.closed
    /\ LET gr == read_graph(p2c.data)
       IN  /\ c2s' = IF gr.ph = "graph" THEN color2sat(gr, k) ELSE <<>>
           /\ diag' = IF gr.ph = "graph" THEN diag ELSE "color2sat: invalid input"
    /\ enc' = "exited"
    /\ UNCHANGED <<pc, graph_buf, k_override, max_k, k, found, tmpfile, sol, p2c,
                   rounds, reported, exit_code, env_failed>>
    /\ UNCHANGED encvars
    /\ UNCHANGED pipevars

\* run_color_minisat: the graph text is written and the write end closed
Write ==
    /\ pc = "write"
    /\ enc \in {"forked", "running"}
    /\ p2c' = [data |-> graph_buf, closed |-> TRUE]
    /\ pc' = "fork2"
    /\ UNCHANGED <<graph_buf, k_override, max_k, k, found, tmpfile, enc, sol, c2s,
                   rounds, reported, exit_code, env_failed, diag>>
    /\ UNCHANGED encvars
    /\ UNCHANGED pipevars

\* run_color_minisat: the child is gone and no read end is left: the write
\* raises SIGPIPE, whose default action ends the driver
WriteSigpipe ==
    /\ pc = "write"
    /\ enc = "exited"
    /\ pc' = "exited"
    /\ exit_code' = "killed"
    /\ UNCHANGED <<graph_buf, k_override, max_k, k, found, tmpfile, enc, sol, p2c,
                   c2s, rounds, reported, env_failed, diag>>
    /\ UNCHANGED encvars
    /\ UNCHANGED pipevars

\* run_color_minisat: write transfers only the first j lines of the text
\* (its return value is compared with 0 only); the write end is closed
WriteShort ==
    /\ pc = "write"
    /\ enc \in {"forked", "running"}
    /\ \E j \in 0..(Len(graph_buf) - 1) :
          p2c' = [data |-> SubSeq(graph_buf, 1, j), closed |-> TRUE]
    /\ env_failed' = TRUE
    /\ pc' = "fork2"
    /\ UNCHANGED <<graph_buf, k_override, max_k, k, found, tmpfile, enc, sol, c2s,
                   rounds, reported, exit_code, diag>>
    /\ UNCHANGED encvars
    /\ UNCHANGED pipevars

\* run_color_minisat: write returns -1; the diagnostic is printed and the
\* round goes on
WriteFail ==
    /\ pc = "write"
    /\ p2c' = [data |-> <<>>, closed |-> TRUE]
    /\ env_failed' = TRUE
    /\ diag' = "write failed:"
    /\ pc' = "fork2"
    /\ UNCHANGED <<graph_buf, k_override, max_k, k, found, tmpfile, enc, sol, c2s,
                   rounds, reported, exit_code>>
    /\ UNCHANGED encvars
    /\ UNCHANGED pipevars

\* run_color_minisat: fork of the minisat child
Fork2 ==
    /\ pc = "fork2"
    /\ sol' = "forked"
    /\ pc' = "wait1"
    /\ UNCHANGED <<graph_buf, k_override, max_k, k, found, tmpfile, enc, p2c, c2s,
                   rounds, reported, exit_code, env_failed, diag>>
    /\ UNCHANGED encvars
    /\ UNCHANGED pipevars

\* run_color_minisat: the second fork fails; return -1 at once
Fork2Fail ==
    /\ pc = "fork2"
    /\ env_failed' = TRUE
    /\ diag' = "fork failed:"
    /\ Return(-1)
    /\ UNCHANGED <<graph_buf, k_override, max_k, k, found, tmpfile, enc, sol, p2c,
                   c2s, reported, exit_code>>
    /\ UNCHANGED encvars
    /\ UNCHANGED pipevars

\* minisat child: open(result_file, O_CREAT|O_TRUNC|O_WRONLY)
SolOpen ==
    /\ sol = "forked"
    /\ tmpfile' = [tmpfile EXCEPT !.exists = TRUE, !.line = "", !.by = k]
    /\ sol' = "opened"
    /\ UNCHANGED <<pc, graph_buf, k_override, max_k, k, found, enc, p2c, c2s,
                   rounds, reported, exit_code, env_failed, diag>>
    /\ UNCHANGED encvars
    /\ UNCHANGED pipevars

SolOpenFail ==
    /\ sol = "forked"
    /\ sol' = "exited"
    /\ env_failed' = TRUE
    /\ diag' = "open result_file failed."
    /\ UNCHANGED <<pc, graph_buf, k_override, max_k, k, found, tmpfile, enc, p2c,
                   c2s, rounds, reported, exit_code>>
    /\ UNCHANGED encvars
    /\ UNCHANGED pipevars

\* minisat child: execvp succeeds
SolExec ==
    /\ sol = "opened"
    /\ sol' = "running"
    /\ UNCHANGED <<pc, graph_buf, k_override, max_k, k, found, tmpfile, enc, p2c,
                   c2s, rounds, reported, exit_code, env_failed, diag>>
    /\ UNCHANGED encvars
    /\ UNCHANGED pipevars

SolExecFail ==
    /\ sol = "opened"
    /\ sol' = "exited"
    /\ env_failed' = TRUE
    /\ diag' = "exec minisat failed."
    /\ UNCHANGED <<pc, graph_buf, k_override, max_k, k, found, tmpfile, enc, p2c,
                   c2s, rounds, reported, exit_code>>
    /\ UNCHANGED encvars
    /\ UNCHANGED pipevars

\* minisat: reads the CNF to the end of its input (the encoder has exited),
\* writes its answer to the result file, and exits
SolRun ==
    /\ sol = "running"
    /\ enc \in {"exited", "reaped"}
    /\ \E v \in Verdicts(c2s) :
          tmpfile' = [tmpfile EXCEPT !.exists = TRUE, !.line = v, !.by = k]
    /\ sol' = "exited"
    /\ UNCHANGED <<pc, graph_buf, k_override, max_k, k, found, enc, p2c, c2s,
                   rounds, reported, exit_code, env_failed, diag>>
    /\ UNCHANGED encvars
    /\ UNCHANGED pipevars

\* mutant: waitpid returns without the child having exited (WNOHANG)
WaitReturns_NoHang(child) == TRUE
\* waitpid(pid, &st, 0) returns once the child has exited
WaitReturns(child) == child = "exited"

Reap(child) == IF child = "exited" THEN "reaped" ELSE child

\* run_color_minisat: waitpid(pid1)
Wait1 ==
    /\ pc = "wait1"
    /\ WaitReturns(enc)
    /\ enc' = Reap(enc)
    /\ pc' = "wait2"
    /\ UNCHANGED <<graph_buf, k_override, max_k, k, found, tmpfile, sol, p2c, c2s,
                   rounds, reported, exit_code, env_failed, diag>>
    /\ UNCHANGED encvars
    /\ UNCHANGED pipevars

\* run_color_minisat: waitpid(pid2)
Wait2 ==
    /\ pc = "wait2"
    /\ WaitReturns(sol)
    /\ sol' = Reap(sol)
    /\ pc' = "check"
    /\ UNCHANGED <<graph_buf, k_override, max_k, k, found, tmpfile, enc, p2c, c2s,
                   rounds, reported, exit_code, env_failed, diag>>
    /\ UNCHANGED encvars
    /\ UNCHANGED pipevars

\* run_color_minisat: the first line of the result file decides
Check ==
    /\ pc = "check"
    /\ tmpfile.exists
    /\ Return(IF tmpfile.line = "SAT" THEN 0 ELSE -1)
    /\ UNCHANGED <<graph_buf, k_override, max_k, k, found, tmpfile, enc, sol, p2c,
                   c2s, reported, exit_code, env_failed, diag>>
    /\ UNCHANGED encvars
    /\ UNCHANGED pipevars

\* run_color_minisat: fopen(result_file) fails
CheckOpenFail ==
    /\ pc = "check"
    /\ env_failed' = TRUE
    /\ Return(-1)
    /\ UNCHANGED <<graph_buf, k_override, max_k, k, found, tmpfile, enc, sol, p2c,
                   c2s, reported, exit_code, diag>>
    /\ UNCHANGED encvars
    /\ UNCHANGED pipevars

\* mutant: found is not set after a successful round
AfterRound_FoundNotSet ==
    /\ pc = "returned"
    /\ found' = found
    /\ IF rounds[Len(rounds)].ret = 0
       THEN pc' = "report" /\ k' = k
       ELSE pc' = "loop" /\ k' = k + 1
    /\ UNCHANGED <<graph_buf, k_override, max_k, tmpfile, enc, sol, p2c, c2s,
                   rounds, reported, exit_code, env_failed, diag>>
    /\ UNCHANGED encvars
    /\ UNCHANGED pipevars
\* main: run_color_minisat(...) == 0 ? found = 1 and report : next k
AfterRound ==
    /\ pc = "returned"
    /\ IF rounds[Len(rounds)].ret = 0
       THEN /\ found' = 1
            /\ pc' = "report"
            /\ k' = k
       ELSE /\ found' = found
            /\ pc' = "loop"
            /\ k' = k + 1
    /\ UNCHANGED <<graph_buf, k_override, max_k, tmpfile, enc, sol, p2c, c2s,
                   rounds, reported, exit_code, env_failed, diag>>
    /\ UNCHANGED encvars
    /\ UNCHANGED pipevars

\* main: "k = <k>" and the result file go to stdout or to the -o file
Report ==
    /\ pc = "report"
    /\ tmpfile.exists
    /\ \E dest \in {"stdout", "outfile"} :
          reported' = Append(reported, [k |-> k, line |-> tmpfile.line, dest |-> dest])
    /\ k' = k + 1
    /\ pc' = "loop"
    /\ UNCHANGED <<graph_buf, k_override, max_k, found, tmpfile, enc, sol, p2c, c2s,
                   rounds, exit_code, env_failed, diag>>
    /\ UNCHANGED encvars
    /\ UNCHANGED pipevars

\* main: fopen(tmpfile, "r") fails, ERROR_EXIT
ReportOpenResultFail ==
    /\ pc = "report"
    /\ env_failed' = TRUE
    /\ ErrorExit("Opening result file failed.")
    /\ UNCHANGED <<graph_buf, k_override, max_k, k, found, tmpfile, enc, sol, p2c,
                   c2s, rounds, reported>>
    /\ UNCHANGED encvars
    /\ UNCHANGED pipevars

\* main: fopen(outfile, "w") fails, ERROR_EXIT
ReportOpenOutfileFail ==
    /\ pc = "report"
    /\ tmpfile.exists
    /\ env_failed' = TRUE
    /\ ErrorExit("Opening output file failed.")
    /\ UNCHANGED <<graph_buf, k_override, max_k, k, found, tmpfile, enc, sol, p2c,
                   c2s, rounds, reported>>
    /\ UNCHANGED encvars
    /\ UNCHANGED pipevars

\* main: free, remove(tmpfile), return
Cleanup ==
    /\ pc = "cleanup"
    /\ tmpfile' = [tmpfile EXCEPT !.exists = FALSE]
    /\ pc' = "exited"
    /\ exit_code' = IF found = 1 THEN "success" ELSE "failure"
    /\ UNCHANGED <<graph_buf, k_override, max_k, k, found, enc, sol, p2c, c2s,
                   rounds, reported, env_failed, diag>>
    /\ UNCHANGED encvars
    /\ UNCHANGED pipevars

Next ==
    \/ ParseHeader \/ ParseHeaderFail \/ Mkstemp \/ MkstempFail \/ LoopTest
    \/ Pipe \/ PipeFail \/ Fork1 \/ Fork1Fail \/ EncExec \/ EncExecFail \/ EncRun
    \/ Write \/ WriteShort \/ WriteFail \/ WriteSigpipe \/ Fork2 \/ Fork2Fail
    \/ SolOpen \/ SolOpenFail \/ SolExec \/ SolExecFail \/ SolRun
    \/ Wait1 \/ Wait2 \/ Check \/ CheckOpenFail \/ AfterRound
    \/ Report \/ ReportOpenResultFail \/ ReportOpenOutfileFail \/ Cleanup

Spec == Init /\ [][Next]_vars

----------------------------------------------------------------------------
(* PipeSpec: the first round of a run, from the entry of run_color_minisat  *)
(* to its return, at the granularity of the transfers through the two      *)
(* pipes.  A pipe holds at most cap lines: a writer blocks while it is      *)
(* full, a reader blocks while it is empty and a write end is open.  No    *)
(* system call fails.                                                      *)

Min(a, b) == IF a < b THEN a ELSE b

\* the texts that pass the driver's parse_header
PipeTexts == {t \in DriverTexts : parse_header(t).ret = 0}

PipeInit ==
    /\ graph_buf \in PipeTexts
    /\ k_override \in 0..MaxK
    /\ max_k = parse_header(graph_buf).n
    /\ k = k_start
    /\ k <= max_k
    /\ cap \in 1..MaxCap
    /\ pc = "pipe"
    /\ found = 0
    /\ tmpfile = [created |-> TRUE, exists |-> TRUE, line |-> "", by |-> 0]
    /\ enc = "none" /\ sol = "none"
    /\ p2c = NoPipe /\ c2s = <<>>
    /\ rounds = <<>> /\ reported = <<>>
    /\ exit_code = "none"
    /\ env_failed = FALSE
    /\ diag = ""
    /\ written = 0 /\ sent = 0 /\ s_in = <<>>
    /\ e_pc = "read" /\ e_k = k /\ rs = ReadStart /\ e_line = NoLine /\ out = <<>>

\* run_color_minisat: write moves into the pipe as many of the remaining
\* lines as it has room for
PipeWrite ==
    /\ pc = "write"
    /\ enc \in {"forked", "running"}
    /\ written < Len(graph_buf)
    /\ Len(p2c.data) < cap
    /\ LET j == Min(cap - Len(p2c.data), Len(graph_buf) - written)
       IN  /\ p2c' = [p2c EXCEPT !.data = @ \o SubSeq(graph_buf, written + 1, written + j)]
           /\ written' = written + j
    /\ UNCHANGED <<pc, graph_buf, k_override, max_k, k, found, tmpfile, enc, sol,
                   c2s, rounds, reported, exit_code, env_failed, diag>>
    /\ UNCHANGED <<cap, sent, s_in>>
    /\ UNCHANGED encvars

\* mutant: the write end of the pipe to color2sat is not closed
PipeWriteDone_NoClose ==
    /\ pc = "write"
    /\ written = Len(graph_buf)
    /\ pc' = "fork2"
    /\ UNCHANGED <<graph_buf, k_override, max_k, k, found, tmpfile, enc, sol, p2c,
                   c2s, rounds, reported, exit_code, env_failed, diag>>
    /\ UNCHANGED pipevars
    /\ UNCHANGED encvars
\* run_color_minisat: write has moved the whole text and returns;
\* close(p2c[1])
PipeWriteDone ==
    /\ pc = "write"
    /\ written = Len(graph_buf)
    /\ p2c' = [p2c EXCEPT !.closed = TRUE]
    /\ pc' = "fork2"
    /\ UNCHANGED <<graph_buf, k_override, max_k, k, found, tmpfile, enc, sol, c2s,
                   rounds, reported, exit_code, env_failed, diag>>
    /\ UNCHANGED pipevars
    /\ UNCHANGED encvars

\* run_color_minisat: color2sat has exited while text remains to be
\* written: SIGPIPE ends the driver
PipeWriteSigpipe ==
    /\ pc = "write"
    /\ written < Len(graph_buf)
    /\ enc = "exited"
    /\ pc' = "exited"
    /\ exit_code' = "killed"
    /\ UNCHANGED <<graph_buf, k_override, max_k, k, found, tmpfile, enc, sol, p2c,
                   c2s, rounds, reported, env_failed, diag>>
    /\ UNCHANGED pipevars
    /\ UNCHANGED encvars

\* color2sat child, read_graph: fgets takes the next line out of the pipe
PipeEncRead ==
    /\ enc = "running"
    /\ e_pc = "read"
    /\ p2c.data # <<>>
    /\ e_line' = Head(p2c.data)
    /\ rs' = read_line(rs, Head(p2c.data))
    /\ p2c' = [p2c EXCEPT !.data = Tail(@)]
    /\ e_pc' = IF rs'.ph = "fatal" THEN "fatal" ELSE "read"
    /\ UNCHANGED <<e_k, out>>
    /\ UNCHANGED <<pc, graph_buf, k_override, max_k, k, found, tmpfile, enc, sol,
                   c2s, rounds, reported, exit_code, env_failed, diag>>
    /\ UNCHANGED pipevars

\* color2sat child, read_graph: the pipe is empty and its write end closed
PipeEncEof ==
    /\ enc = "running"
    /\ e_pc = "read"
    /\ p2c.data = <<>>
    /\ p2c.closed
    /\ e_line' = EofLine
    /\ rs' = read_eof(rs)
    /\ e_pc' = IF rs'.ph = "fatal" THEN "fatal" ELSE "encode"
    /\ UNCHANGED <<e_k, out>>
    /\ UNCHANGED drvvars
    /\ UNCHANGED pipevars

\* color2sat child, main: the CNF is printed into the stdout buffer
PipeEncEncode ==
    /\ enc = "running"
    /\ e_pc = "encode"
    /\ out' = color2sat(rs, e_k)
    /\ e_pc' = "print"
    /\ UNCHANGED <<e_k, rs, e_line>>
    /\ UNCHANGED drvvars
    /\ UNCHANGED pipevars

\* color2sat child: stdout is flushed into the pipe as far as it has room
PipeEncPrint ==
    /\ enc = "running"
    /\ e_pc = "print"
    /\ sent < Len(out)
    /\ Len(c2s) < cap
    /\ LET j == Min(cap - Len(c2s), Len(out) - sent)
       IN  /\ c2s' = c2s \o SubSeq(out, sent + 1, sent + j)
           /\ sent' = sent + j
    /\ UNCHANGED <<pc, graph_buf, k_override, max_k, k, found, tmpfile, enc, sol,
                   p2c, rounds, reported, exit_code, env_failed, diag>>
    /\ UNCHANGED <<cap, written, s_in>>
    /\ UNCHANGED encvars

\* color2sat child: exit, with everything printed or on a fatal format error
PipeEncExit ==
    /\ enc = "running"
    /\ \/ e_pc = "print" /\ sent = Len(out) /\ e_pc' = "done" /\ diag' = diag
       \/ e_pc = "fatal" /\ e_pc' = "fatal" /\ diag' = "color2sat: invalid input"
    /\ enc' = "exited"
    /\ UNCHANGED <<e_k, rs, e_line, out>>
    /\ UNCHANGED <<pc, graph_buf, k_override, max_k, k, found, tmpfile, sol, p2c,
                   c2s, rounds, reported, exit_code, env_failed>>
    /\ UNCHANGED pipevars

\* minisat child: reads what the pipe holds
PipeSolRead ==
    /\ sol = "running"
    /\ c2s # <<>>
    /\ s_in' = s_in \o c2s
    /\ c2s' = <<>>
    /\ UNCHANGED <<pc, graph_buf, k_override, max_k, k, found, tmpfile, enc, sol,
                   p2c, rounds, reported, exit_code, env_failed, diag>>
    /\ UNCHANGED <<cap, written, sent>>
    /\ UNCHANGED encvars

\* minisat child: the pipe is empty and color2sat, the last holder of a write
\* end, has exited: the answer is written to the result file; exit
PipeSolEof ==
    /\ sol = "running"
    /\ c2s = <<>>
    /\ enc \in {"exited", "reaped"}
    /\ \E v \in Verdicts(s_in) :
          tmpfile' = [tmpfile EXCEPT !.exists = TRUE, !.line = v, !.by = k]
    /\ sol' = "exited"
    /\ UNCHANGED <<pc, graph_buf, k_override, max_k, k, found, enc, p2c, c2s,
                   rounds, reported, exit_code, env_failed, diag>>
    /\ UNCHANGED pipevars
    /\ UNCHANGED encvars

\* the steps of the driver, of the color2sat child and of the minisat child
PipeDriverSteps ==
    \/ Pipe \/ Fork1 \/ PipeWrite \/ PipeWriteDone \/ PipeWriteSigpipe \/ Fork2
    \/ Wait1 \/ Wait2 \/ Check
PipeEncSteps ==
    EncExec \/ PipeEncRead \/ PipeEncEof \/ PipeEncEncode \/ PipeEncPrint \/ PipeEncExit
PipeSolSteps == SolOpen \/ SolExec \/ PipeSolRead \/ PipeSolEof

PipeNext == PipeDriverSteps \/ PipeEncSteps \/ PipeSolSteps

\* each of the three processes is scheduled as long as it can run
PipeSpec ==
    /\ PipeInit
    /\ [][PipeNext]_vars
    /\ WF_vars(PipeDriverSteps)
    /\ WF_vars(PipeEncSteps)
    /\ WF_vars(PipeSolSteps)

----------------------------------------------------------------------------
(* Claims about color2sat, checked under EncSpec *)

\* C1: for a graph whose edge endpoints all lie in [1, n] and k >= 1, the
\* emitted clauses are satisfiable over the declared variables if and only
\* if the graph has a proper k-coloring.
C1_SatIffColorable ==
    (e_pc = "done" /\ EndpointsInRange(rs)) =>
        (Satisfiable(CnfClauses(out), CnfHeader(out).vars) <=> Colorable(rs, e_k))

\* the triangle encoded for 2 colors: not colorable, and found unsatisfiable
C1_Witness ==
    /\ e_pc = "done" /\ rs.n = 3 /\ e_k = 2
    /\ {rs.edges[i] : i \in 1..Len(rs.edges)} = {<<1, 2>>, <<1, 3>>, <<2, 3>>}
    /\ ~Satisfiable(CnfClauses(out), CnfHeader(out).vars)

\* C2: the header declares n*k variables and n + n*k*(k-1)/2 + m*k clauses
\* (m the number of edges recorded), and exactly that many clause lines are
\* emitted after it: n coverage clauses (k positive literals each) and
\* n*k*(k-1)/2 + m*k two-literal negative clauses.
C2_HeaderCounts ==
    e_pc = "done" =>
        LET h == CnfHeader(out)
            cls == CnfClauses(out)
            n == rs.n
            m == Len(rs.edges)
            pos == SelectSeq(cls, LAMBDA c : \A j \in DOMAIN c.lits : ~c.lits[j].neg)
            neg == SelectSeq(cls, LAMBDA c : \A j \in DOMAIN c.lits : c.lits[j].neg)
        IN  /\ h.vars = n * e_k
            /\ h.clauses = n + (n * e_k * (e_k - 1)) \div 2 + m * e_k
            /\ Len(cls) = h.clauses
            /\ Len(out) = Len(cls) + 2
            /\ Len(pos) = n
            /\ Len(neg) = (n * e_k * (e_k - 1)) \div 2 + m * e_k

\* 3 vertices, 2 recorded edges, 3 colors: 3 + 9 + 6 = 18 clauses
C2_Witness ==
    /\ e_pc = "done" /\ rs.n = 3 /\ Len(rs.edges) = 2 /\ e_k = 3
    /\ CnfHeader(out).clauses = 18 /\ Len(CnfClauses(out)) = 18

\* C3: every literal emitted for an accepted graph text is non-zero and at
\* most the declared variable count in absolute value; equivalently every
\* stored edge endpoint lies in [1, n].
C3_LiteralsInRange ==
    e_pc = "done" =>
        /\ \A l \in AllLits(out) : LitInRange(l, CnfHeader(out).vars)
        /\ EndpointsInRange(rs)

\* C13: once the problem line is accepted, a line the reader gets past is a
\* well-formed "e U V" line read while fewer than M edges were stored, and
\* it is stored as the last edge; no other line is passed over.
C13_StrictEdgeLines ==
    (rs.ph = "edges" /\ e_line.t # "p") =>
        /\ e_line.t = "e" /\ e_line.ok
        /\ rs.edges # <<>>
        /\ rs.edges[Len(rs.edges)] = <<e_line.a, e_line.b>>
        /\ Len(rs.edges) <= rs.m_decl

\* C14: when the input ends after c < M edge lines, the reader does not
\* fail and records m = c with the c edges read; the header's clause count
\* and the adjacency clauses printed are those of c edges.
C14_FewerEdgesThanDeclared ==
    (e_line = EofLine /\ Len(rs.edges) < rs.m_decl) =>
        /\ rs.ph = "graph"
        /\ rs.m = Len(rs.edges)
        /\ e_pc = "done" =>
              /\ CnfHeader(out).clauses
                    = rs.n + (rs.n * e_k * (e_k - 1)) \div 2 + Len(rs.edges) * e_k
              /\ Len(CnfClauses(out))
                    = rs.n + (rs.n * e_k * (e_k - 1)) \div 2 + Len(rs.edges) * e_k

\* "p edge 3 2" and one edge line, 2 colors: m = 1 and 3 + 3 + 2 clauses
C14_Witness ==
    /\ e_pc = "done" /\ e_k = 2
    /\ rs.n = 3 /\ rs.m_decl = 2 /\ rs.m = 1 /\ Len(rs.edges) = 1
    /\ CnfHeader(out).clauses = 8 /\ Len(CnfClauses(out)) = 8

\* the literal numbers of the n coverage clauses, by vertex and color
CoverageNum(v, c) == CnfClauses(out)[v].lits[c].num

\* C16: the variable printed for (vertex v, color c) is (v-1)*k + c; on
\* [1,n] x [1,k] it is injective, and its values are exactly 1..n*k.
C16_VarBijection ==
    e_pc = "done" =>
        /\ \A v \in 1..rs.n : \A c \in 1..e_k :
              /\ CoverageNum(v, c) = var(v, c, e_k)
              /\ var(v, c, e_k) = (v - 1) * e_k + c
        /\ \A v, w \in 1..rs.n : \A c, d \in 1..e_k :
              var(v, c, e_k) = var(w, d, e_k) => (v = w /\ c = d)
        /\ {var(v, c, e_k) : v \in 1..rs.n, c \in 1..e_k} = 1..(rs.n * e_k)

\* 3 vertices and 3 colors: the last coverage literal is variable 9
C16_Witness ==
    /\ e_pc = "done" /\ rs.n = 3 /\ e_k = 3
    /\ CoverageNum(3, 3) = 9 /\ CoverageNum(2, 1) = 4

\* position of the pair i < j among the color pairs in the order of the
\* two nested loops
PairRank(i, j, kk) == (i - 1) * kk - (i * (i - 1)) \div 2 + (j - i)

\* C19: the output is the comment and the header, then the n coverage
\* clauses by vertex, then the exclusivity clauses by vertex and by color
\* pair i < j, then the adjacency clauses by edge in input order and by
\* color; every clause line ends with 0.
C19_OutputOrder ==
    e_pc = "done" =>
        LET n == rs.n
            kk == e_k
            m == Len(rs.edges)
            pairs == (kk * (kk - 1)) \div 2
            ex0 == 2 + n
            ad0 == 2 + n + n * pairs
        IN  /\ Len(out) = ad0 + m * kk
            /\ out[1].t = "c"
            /\ out[2].t = "p"
            /\ \A i \in 3..Len(out) : out[i].t = "cl" /\ out[i].term = 0
            /\ \A v \in 1..n :
                  /\ Len(out[2 + v].lits) = kk
                  /\ \A c \in 1..kk :
                        out[2 + v].lits[c] = Lit(FALSE, (v - 1) * kk + c)
            /\ \A v \in 1..n : \A i \in 1..kk : \A j \in (i + 1)..kk :
                  out[ex0 + (v - 1) * pairs + PairRank(i, j, kk)].lits
                      = <<Lit(TRUE, (v - 1) * kk + i), Lit(TRUE, (v - 1) * kk + j)>>
            /\ \A e \in 1..m : \A c \in 1..kk :
                  out[ad0 + (e - 1) * kk + c].lits
                      = <<Lit(TRUE, (rs.edges[e][1] - 1) * kk + c),
                          Lit(TRUE, (rs.edges[e][2] - 1) * kk + c)>>

\* 2 vertices, 2 colors, the edge 1-2: lines 5-6 are the exclusivity
\* clauses, lines 7-8 the adjacency clauses
C19_Witness ==
    /\ e_pc = "done" /\ rs.n = 2 /\ e_k = 2 /\ rs.edges = <<<<1, 2>>>>
    /\ Len(out) = 8
    /\ out[6].lits = <<Lit(TRUE, 3), Lit(TRUE, 4)>>
    /\ out[7].lits = <<Lit(TRUE, 1), Lit(TRUE, 3)>>

\* C20: the header's clause count is n + n*k*(k-1)/2 + m*k and the number
\* of clause lines printed, and its variable count is n*k, also when n*k
\* does not fit an int (but fits a long long).
C20_HeaderExactBeyondInt ==
    e_pc = "done" =>
        /\ CnfHeader(out).clauses
              = rs.n + (rs.n * e_k * (e_k - 1)) \div 2 + Len(rs.edges) * e_k
        /\ CnfHeader(out).clauses = Len(CnfClauses(out))
        /\ CnfHeader(out).vars = rs.n * e_k

----------------------------------------------------------------------------
(* Claims about the driver, checked under Spec *)

\* the graph color2sat makes of the driver's input
TheGraph == read_graph(graph_buf)
\* the input is accepted and describes a simple graph on the vertices 1..n
SimpleGraph ==
    /\ TheGraph.ph = "graph"
    /\ EndpointsInRange(TheGraph)
    /\ \A i \in 1..Len(TheGraph.edges) : TheGraph.edges[i][1] # TheGraph.edges[i][2]
    /\ \A i, j \in 1..Len(TheGraph.edges) :
          i # j => {TheGraph.edges[i][1], TheGraph.edges[i][2]}
                      # {TheGraph.edges[j][1], TheGraph.edges[j][2]}

\* C4: the rounds are run for k_start, k_start + 1, ... in this order, each
\* k at most once and none above max_k; only the last round run can have
\* succeeded; success is reported at most once, for the k of that last,
\* successful round, so no round follows the reported k.
C4_UpwardScan ==
    /\ \A i \in 1..Len(rounds) :
          rounds[i].k = k_start + i - 1 /\ rounds[i].k <= max_k
    /\ \A i \in 1..(Len(rounds) - 1) : rounds[i].ret = -1
    /\ Len(reported) <= 1
    /\ reported # <<>> =>
          /\ rounds # <<>>
          /\ rounds[Len(rounds)].ret = 0
          /\ reported[1].k = rounds[Len(rounds)].k

\* a failed round for k = 2 followed by the successful one for k = 3
C4_Witness ==
    /\ Len(rounds) = 2 /\ rounds[1].ret = -1 /\ rounds[2].ret = 0
    /\ reported # <<>> /\ reported[1].k = 3
    /\ pc = "exited" /\ ~env_failed /\ SimpleGraph

\* C5: a run on a simple graph with n >= 1 vertices, without -k and without
\* any system failure, ends reporting success for some k <= n.
C5_DefaultSearchSucceeds ==
    (pc = "exited" /\ k_override = 0 /\ SimpleGraph /\ ~env_failed) =>
        /\ exit_code = "success"
        /\ Len(reported) = 1
        /\ reported[1].k <= TheGraph.n

\* C6: with a -k override above the vertex count, the run reports success
\* at exactly the override.
C6_OverrideAboveN ==
    (pc = "exited" /\ k_override > max_k /\ SimpleGraph /\ ~env_failed) =>
        /\ exit_code = "success"
        /\ Len(reported) = 1
        /\ reported[1].k = k_override

\* C7: on the graph with 3 vertices and no edge, without -k, the driver
\* reports k = 1.
C7_EdgelessReportsOne ==
    (/\ pc = "exited" /\ k_override = 0 /\ ~env_failed
     /\ TheGraph.ph = "graph" /\ TheGraph.n = 3 /\ TheGraph.edges = <<>>) =>
        /\ Len(reported) = 1
        /\ reported[1].k = 1

\* C8: when the driver reads the result file, the encoder and the solver of
\* the round have both exited and been waited for, and a line the solver of
\* this round wrote is its answer to what the encoder printed.
C8_ReadAfterBothExit ==
    pc = "check" =>
        /\ enc = "reaped"
        /\ sol = "reaped"
        /\ (tmpfile.by = k /\ tmpfile.line # "") => tmpfile.line \in Verdicts(c2s)

\* a round whose solver answered UNSAT to a CNF, about to be read
C8_Witness ==
    /\ pc = "check" /\ tmpfile.by = k /\ tmpfile.line = "UNSAT"
    /\ WellFormedCnf(c2s) /\ ~env_failed

\* C9: whenever a round has returned, and until the next one creates its
\* pipes, every child the round launched has been waited for.
C9_ChildrenReaped ==
    pc \in {"returned", "loop", "pipe"} =>
        /\ enc \in {"none", "reaped"}
        /\ sol \in {"none", "reaped"}

\* C10: the result file exists from before the first round, and once the
\* driver has exited (with success or failure) after creating it, the file
\* is gone.
C10_ArtifactRemoved ==
    /\ (rounds # <<>> \/ pc \in {"pipe", "fork1", "write", "fork2", "wait1",
                                 "wait2", "check"}) => tmpfile.created
    /\ (pc = "exited" /\ tmpfile.created /\ exit_code \in {"success", "failure"})
          => ~tmpfile.exists

\* diagnostics of a failed pipe, fork or exec
LaunchDiags ==
    {"pipe failed", "fork failed.", "fork failed:", "exec color2sat failed.",
     "exec minisat failed."}

\* C11: a failure to create the pipes or to launch a child ends the whole
\* run with failure: with such a failure as the last diagnostic, no round
\* for a further k is begun, and the run does not end in success or with a
\* report.
C11_LaunchFailureAborts ==
    diag \in LaunchDiags =>
        /\ ~(pc = "pipe" /\ rounds # <<>>)
        /\ reported = <<>>
        /\ exit_code # "success"

\* C12: a round whose write did not transfer the whole graph text returns
\* failure, and no success is reported for a k whose encoder was not handed
\* the whole text.
C12_ShortWriteFailsRound ==
    /\ (pc = "returned" /\ p2c.closed /\ p2c.data # graph_buf) =>
            rounds[Len(rounds)].ret = -1
    /\ reported # <<>> => p2c.data = graph_buf

\* C15: success is reported at most once; an exited driver has exit status
\* success exactly when the report was made; without a successful round
\* nothing is reported and the status is not success.
C15_ReportIffSuccess ==
    /\ Len(reported) <= 1
    /\ pc = "exited" => (exit_code = "success" <=> Len(reported) = 1)
    /\ (\A i \in 1..Len(rounds) : rounds[i].ret # 0) =>
          (reported = <<>> /\ exit_code # "success")

\* a run that wrote its report to the -o file and exited with success
C15_Witness ==
    /\ pc = "exited" /\ exit_code = "success"
    /\ Len(reported) = 1 /\ reported[1].dest = "outfile"
    /\ rounds[Len(rounds)].ret = 0
    /\ ~env_failed /\ SimpleGraph

\* C17: when color2sat rejects the graph text with a fatal format error
\* (and no system call fails), no round returns success, nothing is reported
\* and the run ends in failure.
C17_EncoderFailureFailsRun ==
    (TheGraph.ph = "fatal" /\ ~env_failed) =>
        /\ \A i \in 1..Len(rounds) : rounds[i].ret = -1
        /\ reported = <<>>
        /\ pc = "exited" => exit_code = "failure"

\* C21: a round returns success, and success is reported for its k, only
\* when the first line of the result file is a SAT written by the solver
\* launched in that very round; what an earlier round (or mkstemp) left in
\* the file is never taken for the verdict of a later k.
C21_NoStaleVerdict ==
    /\ (pc = "returned" /\ rounds[Len(rounds)].ret = 0) =>
            (tmpfile.line = "SAT" /\ tmpfile.by = k)
    /\ reported # <<>> =>
            (reported[1].line = "SAT" /\ tmpfile.by = reported[1].k)

----------------------------------------------------------------------------
(* Claims about the pipes of a round, checked under PipeSpec *)

\* color2sat has exited on a fatal format error at a line, without reading
\* its input to the end
EncoderQuitEarly == e_pc = "fatal" /\ e_line # EofLine

\* the write is complete, both pipes are drained and at their end, both
\* children have exited and been waited for, and the round has returned
RoundDone ==
    /\ pc = "returned" /\ Len(rounds) = 1
    /\ written = Len(graph_buf) /\ p2c.closed /\ p2c.data = <<>>
    /\ c2s = <<>> /\ sent = Len(out) /\ s_in = out
    /\ enc = "reaped" /\ sol = "reaped"

\* C18: for every text and every pipe capacity, a round in which color2sat
\* reads its input to the end (and minisat does, as it always does here)
\* eventually has its write completed, both pipes at their end, both
\* children exited, and has returned a verdict.
C18_RoundTerminates == <>(RoundDone \/ EncoderQuitEarly)

\* a returned round whose graph text and whose CNF both exceeded the pipe
\* capacity
C18_Witness ==
    /\ RoundDone
    /\ Len(graph_buf) > cap /\ Len(out) > cap
    /\ rs.ph = "graph"

====
